---- MODULE Spec2Model ----
(***************************************************************************)
(* SimpleVectorPlotter / VectorPlotter (3_3_2_2_plot_spatial_data.py):     *)
(* ring orientation, polygon path building, and the registry of named      *)
(* layers with its canvas (the axes' lines and patches lists) and palette. *)
(***************************************************************************)
EXTENDS Integers, Sequences, FiniteSets, TLC

(* ---------------------------------------------------------------------- *)
(* Bounds                                                                  *)
(* ---------------------------------------------------------------------- *)
\* ring inputs of the orientation functions: points on a (MaxCoord+1)^2 grid
MaxCoord == 2
MaxRingLen == 3
\* polygon inputs of the path builder: an outer ring and up to MaxHoles holes
MaxHoles == 1
\* a plotting session: primitives created, palette length, layers
MaxPrims == 2
\* show appends without looking: the canvas lists hold at most MaxRepeats
\* entries that repeat an artist already on the same list
MaxRepeats == 1
PaletteLen == 2
MaxLayers == 2
\* primitives created in a session that plots polygons only
MaxPolygons == 3
\* calls of _order_vertices made in a row on one list
MaxCalls == 2

(* ---------------------------------------------------------------------- *)
(* Ring orientation (pure functions)                                       *)
(* ---------------------------------------------------------------------- *)
Reverse(s) == [i \in 1..Len(s) |-> s[Len(s) + 1 - i]]

\* the running total of _clockwise after the loop over data[1:] has consumed
\* the points up to index i (1-based): sum of (x - x1) * (y + y1)
RECURSIVE LoopTotal(_, _)
LoopTotal(data, i) ==
    IF i <= 1 THEN 0
    ELSE LoopTotal(data, i - 1)
         + (data[i][1] - data[i - 1][1]) * (data[i][2] + data[i - 1][2])

\* total of _clockwise: the loop, then the wrap from the last point to data[0]
ShoelaceTotal(data) ==
    LoopTotal(data, Len(data))
    + (data[1][1] - data[Len(data)][1]) * (data[1][2] + data[Len(data)][2])

_clockwise(data) == ShoelaceTotal(data) > 0

\* self._clockwise(data) != clockwise or data.reverse(): the reverse runs
\* exactly when the left operand is false, i.e. when the two are EQUAL
_order_vertices(data, clockwise) ==
    LET d == IF _clockwise(data) # clockwise THEN data ELSE Reverse(data)
    IN  IF d[1] # d[Len(d)] THEN Append(d, d[1]) ELSE d

_codes(data) == [i \in 1..Len(data) |-> IF i = 1 THEN "MOVETO" ELSE "LINETO"]

RECURSIVE Concat(_)
Concat(seqs) == IF seqs = <<>> THEN <<>> ELSE Head(seqs) \o Concat(Tail(seqs))

\* A polygon argument: objs are its list objects (rings), data[k] is the
\* object that is its k-th ring; one object may be several rings.
\* _order_vertices works in place and returns its argument: the objects after
\* the calls on data[1] (True) and on data[2..k] (False), in that order
RECURSIVE OrderedInPlace(_, _, _)
OrderedInPlace(objs, data, k) ==
    IF k = 0 THEN objs
    ELSE LET before == OrderedInPlace(objs, data, k - 1)
         IN  [before EXCEPT ![data[k]] = _order_vertices(@, k = 1)]

\* the Path(vertices, codes) that _plot_polygon hands to PathPatch: outer and
\* inner are read when all the calls have run
PolygonPath(p) ==
    LET objs == OrderedInPlace(p.objs, p.data, Len(p.data))
        rings == [k \in 1..Len(p.data) |-> objs[p.data[k]]]
    IN  [vertices |-> Concat(rings),
         codes    |-> Concat([k \in 1..Len(rings) |-> _codes(rings[k])])]

(* ---------------------------------------------------------------------- *)
(* The plotting session                                                    *)
(* ---------------------------------------------------------------------- *)
VARIABLES
    graphics,       \* self._graphics: layer name -> list of primitive ids
    prims,          \* every primitive created so far; its id is its index
    lines,          \* plt.axes().lines
    patches,        \* plt.axes().patches
    current_color,  \* self.current_color, the palette cursor
    call,           \* history: the call that produced this state
    implicit,       \* history: per polygon plot without fill colour, its primitives
    budget,         \* the number of primitives the session may create
    ring,           \* the list object handed to _order_vertices, as it is now
    want,           \* the clockwise flag of the calls
    returned,       \* history: a copy of the list each call returned, at its return
    poly,           \* _plot_polygon's data argument: its list objects, as they are now
    path,           \* the Path(vertices, codes) _plot_polygon built
    given           \* history: a copy of the argument's list objects, as passed

sessionVars == <<graphics, prims, lines, patches, current_color, call, implicit, budget>>
ringVars == <<ring, want, returned>>
polyVars == <<poly, path>>
vars == <<sessionVars, ringVars, polyVars, given>>

\* list(mpl.rcParams['axes.prop_cycle']), cut to the palette length of the model
AllColors == <<"C0", "C1", "C2", "C3", "C4", "C5", "C6", "C7", "C8", "C9">>
colors == SubSeq(AllColors, 1, PaletteLen)

\* layer names: an explicit string, or the ordinal len(self._graphics)
StrName(s) == [s |-> s, n |-> -1]
OrdName(k) == [s |-> "", n |-> k]
ExplicitNames == {"a"}
\* name = name or len(self._graphics)
ResolveName(name, reg) ==
    IF name # "" THEN StrName(name) ELSE OrdName(Cardinality(DOMAIN reg))

EmptyRegistry == [k \in {} |-> <<>>]
NoKwargs == <<>>
\* symbol or kwargs, as a truth value
Truthy(symbol, kwargs) == symbol # "" \/ kwargs # NoKwargs

Range(s) == {s[i] : i \in 1..Len(s)}
Count(s, g) == Cardinality({i \in 1..Len(s) : s[i] = g})

\* list.remove(g): drops the first occurrence
RemoveFirst(s, g) ==
    LET i == CHOOSE k \in 1..Len(s) : s[k] = g /\ \A j \in 1..(k - 1) : s[j] # g
    IN  SubSeq(s, 1, i - 1) \o SubSeq(s, i + 1, Len(s))

\* for graphic in graphics: artists.remove(graphic); the first absent graphic
\* raises ValueError, which hide catches: the loop stops there
RECURSIVE RemoveEach(_, _)
RemoveEach(artists, gs) ==
    IF gs = <<>> THEN artists
    ELSE IF Head(gs) \in Range(artists)
         THEN RemoveEach(RemoveFirst(artists, Head(gs)), Tail(gs))
         ELSE artists

\* the session state threaded through one call: the object's fields, the
\* graphics list being built (out) and the exception raised (err)
Session == [graphics |-> graphics, prims |-> prims, lines |-> lines,
            patches |-> patches, cc |-> current_color, out |-> <<>>, err |-> ""]

\* mutant of _next_color_new: the cursor is not advanced
NextColorStuck(st) == [st EXCEPT !.cc = IF st.cc < 0 THEN 0 ELSE st.cc]

\* _next_color_new: increment, wrap at len(self.colors); the colour returned
\* is the one at the cursor
_next_color_new(st) ==
    [st EXCEPT !.cc = IF st.cc + 1 >= Len(colors) THEN 0 ELSE st.cc + 1]
ColorAt(st) == colors[st.cc + 1]

\* plt.plot(x, y, symbol, **kwargs): one Line2D of n points, added to axes.lines
NewLine2D(st, n, symbol, kwargs) ==
    LET id == Len(st.prims) + 1
    IN  [st EXCEPT !.prims = Append(@, [cls |-> "Line2D", n |-> n,
                                         style |-> [sym |-> symbol, kw |-> kwargs]]),
                   !.lines = Append(@, id),
                   !.out = Append(@, id)]

\* _plot_point
_plot_point(st, symbol, kwargs) == NewLine2D(st, 1, symbol, kwargs)

\* _plot_line
_plot_line(st, n, symbol, kwargs) == NewLine2D(st, n, symbol, kwargs)

\* _plot_polygon: one PathPatch, added with plt.axes().add_patch
_plot_polygon(st, kwargs) ==
    LET id == Len(st.prims) + 1
    IN  [st EXCEPT !.prims = Append(@, [cls |-> "PathPatch", n |-> 0,
                                         style |-> [sym |-> "", kw |-> kwargs]]),
                   !.patches = Append(@, id),
                   !.out = Append(@, id)]

\* _point_symbol / _line_symbol: the next palette colour with a marker
_point_symbol(st) == LET s == _next_color_new(st) IN [st |-> s, symbol |-> ColorAt(s) \o "o"]
_line_symbol(st) == LET s == _next_color_new(st) IN [st |-> s, symbol |-> ColorAt(s) \o "-"]

\* hide, as a step of the session state: KeyError and ValueError are caught,
\* an empty list raises IndexError at graphics[0]
HideStep(st, name) ==
    IF name \notin DOMAIN st.graphics THEN st
    ELSE LET gs == st.graphics[name]
         IN  IF gs = <<>> THEN [st EXCEPT !.err = "IndexError"]
             ELSE IF st.prims[gs[1]].cls = "Line2D"
                  THEN [st EXCEPT !.lines = RemoveEach(@, gs)]
                  ELSE [st EXCEPT !.patches = RemoveEach(@, gs)]

\* _same_type on two primitives: "yes", "no", or the AttributeError of
\* get_xdata on a PathPatch (no primitive is a patches.Polygon)
_same_type(g1, g2) ==
    IF g1.cls # g2.cls THEN "no"
    ELSE IF g1.cls = "PathPatch" THEN "AttributeError"
    ELSE IF g1.n = g2.n THEN "yes"
    ELSE IF g1.n > 1 /\ g2.n > 1 THEN "yes" ELSE "no"

\* for graphic in graphics: graphic.update_from(styled_graphic); update_from
\* between a Line2D and a patch raises AttributeError
RECURSIVE UpdateEach(_, _, _)
UpdateEach(st, gs, styled) ==
    IF gs = <<>> THEN st
    ELSE IF st.prims[Head(gs)].cls # st.prims[styled].cls
         THEN [st EXCEPT !.err = "AttributeError"]
         ELSE UpdateEach([st EXCEPT !.prims[Head(gs)].style = st.prims[styled].style],
                         Tail(gs), styled)

\* self._graphics[name] = graphics
Store(st, name) ==
    [st EXCEPT !.graphics = [k \in DOMAIN st.graphics \cup {name} |->
                                IF k = name THEN st.out ELSE st.graphics[k]]]

\* _set_graphics(graphics = st.out, name, has_symbol)
_set_graphics(st, name_arg, has_symbol) ==
    LET name == ResolveName(name_arg, st.graphics)
    IN  IF name \notin DOMAIN st.graphics THEN Store(st, name)
        ELSE LET h == HideStep(st, name)
                 old == st.graphics[name]
             IN  IF h.err # "" THEN h
                 ELSE IF has_symbol THEN Store(h, name)
                 ELSE IF h.out = <<>> THEN [h EXCEPT !.err = "IndexError"]
                 ELSE LET same == _same_type(h.prims[h.out[1]], h.prims[old[1]])
                      IN  IF same = "AttributeError" THEN [h EXCEPT !.err = "AttributeError"]
                          ELSE IF same = "no" THEN Store(h, name)
                          ELSE LET u == UpdateEach(h, h.out, old[1])
                               IN  IF u.err # "" THEN u ELSE Store(u, name)

\* for graphic in graphics: add_line(graphic) / add_patch(graphic).
\* add_patch of a Line2D raises (a line has no patch transform). What add_line
\* does with a patch depends on the backend's version: it appends it to
\* axes.lines all the same (lenient) or raises
RECURSIVE AddEach(_, _, _, _)
AddEach(st, gs, cls, lenient) ==
    IF gs = <<>> THEN st
    ELSE IF st.prims[Head(gs)].cls # cls /\ cls = "PathPatch"
         THEN [st EXCEPT !.err = "AttributeError"]
    ELSE IF st.prims[Head(gs)].cls # cls /\ ~lenient
         THEN [st EXCEPT !.err = "TypeError"]
         ELSE AddEach(IF cls = "Line2D" THEN [st EXCEPT !.lines = Append(@, Head(gs))]
                      ELSE [st EXCEPT !.patches = Append(@, Head(gs))],
                      Tail(gs), cls, lenient)

\* show, as a step of the session state: KeyError is caught
ShowStep(st, name, lenient) ==
    IF name \notin DOMAIN st.graphics THEN st
    ELSE LET gs == st.graphics[name]
         IN  IF gs = <<>> THEN [st EXCEPT !.err = "IndexError"]
             ELSE AddEach(st, gs, st.prims[gs[1]].cls, lenient)

\* mutant of RemoveStep: the KeyError of del is not caught
RemoveStepUncaught(st, name) ==
    LET h == HideStep(st, name)
    IN  IF h.err # "" THEN h
        ELSE IF name \notin DOMAIN h.graphics THEN [h EXCEPT !.err = "KeyError"]
        ELSE [h EXCEPT !.graphics = [k \in DOMAIN h.graphics \ {name} |-> h.graphics[k]]]

\* remove, as a step of the session state: hide, then del; KeyError is caught
RemoveStep(st, name) ==
    LET h == HideStep(st, name)
    IN  IF h.err # "" THEN h
        ELSE [h EXCEPT !.graphics = [k \in DOMAIN h.graphics \ {name} |-> h.graphics[k]]]

(* ---------------------------------------------------------------------- *)
(* Calls: the history record and the operations of SimpleVectorPlotter     *)
(* ---------------------------------------------------------------------- *)
NoPre == [lines |-> <<>>, patches |-> <<>>]
\* history record of a call: its operation and resolved layer name, whether the
\* caller supplied a symbol or keyword, the has_symbol handed to _set_graphics
\* ("none" when it was not reached), the exception raised, and for hide the
\* canvas before it
NoCall == [op |-> "init", name |-> OrdName(0), supplied |-> FALSE,
           has_symbol |-> "none", err |-> "", pre |-> NoPre]
PlotOps == {"plot_point", "plot_line", "plot_polygon", "plot_multipoint",
            "plot_multiline", "plot_multipolygon", "plot_geom", "plot_layer"}

\* the session's variables after a call that ended in state st
Commit(st, rec) ==
    /\ graphics' = st.graphics
    /\ prims' = st.prims
    /\ lines' = st.lines
    /\ patches' = st.patches
    /\ current_color' = st.cc
    /\ call' = [rec EXCEPT !.err = st.err]
    /\ budget' = budget
    /\ UNCHANGED <<ringVars, polyVars, given>>

PlotRec(op, name_arg, supplied, has_symbol) ==
    [NoCall EXCEPT !.op = op, !.name = ResolveName(name_arg, graphics),
                   !.supplied = supplied,
                   !.has_symbol = IF has_symbol THEN "truthy" ELSE "falsy"]

LayerRec(op, name) == [NoCall EXCEPT !.op = op, !.name = name]

\* (symbol, kwargs) of a call: nothing, a symbol or colour, a fill keyword
StyleArgs == {<<"", NoKwargs>>, <<"k", NoKwargs>>}
PolygonStyleArgs == StyleArgs \cup {<<"", [fc |-> "k"]>>}
LinePts == {2, 3}
\* data of plot_multiline (the point count of each line) and the number of
\* polygons of plot_multipolygon
MultiLines == {<<2>>, <<2, 2>>}
MultiPolygonSizes == {1, 2}
NameArgs == ExplicitNames \cup {""}

\* the session stays within the bounds: k more primitives, one more layer
Room(k, name) ==
    /\ Len(prims) + k <= budget
    /\ \/ ResolveName(name, graphics) \in DOMAIN graphics
       \/ Cardinality(DOMAIN graphics) < MaxLayers

WithFc(kwargs, c) == [k \in DOMAIN kwargs \cup {"fc"} |-> IF k = "fc" THEN c ELSE kwargs[k]]

\* _plot_multiline: one Line2D per line (lns: the point count of each line)
RECURSIVE _plot_multiline(_, _, _, _)
_plot_multiline(st, lns, symbol, kwargs) ==
    IF lns = <<>> THEN st
    ELSE _plot_multiline(_plot_line(st, Head(lns), symbol, kwargs), Tail(lns), symbol, kwargs)

\* _plot_multipolygon: one PathPatch per polygon, k polygons
RECURSIVE _plot_multipolygon(_, _, _)
_plot_multipolygon(st, k, kwargs) ==
    IF k = 0 THEN st
    ELSE _plot_multipolygon(_plot_polygon(st, kwargs), k - 1, kwargs)

\* SimpleVectorPlotter.plot_multipoint: the default symbol is drawn, then
\* _plot_multipoint is called without the symbol and raises TypeError
plot_multipoint(symbol, name, kwargs) ==
    LET ps == IF symbol = "" THEN _point_symbol(Session)
              ELSE [st |-> Session, symbol |-> symbol]
    IN  /\ Commit([ps.st EXCEPT !.err = "TypeError"],
                  [PlotRec("plot_multipoint", name, Truthy(symbol, kwargs), FALSE)
                      EXCEPT !.has_symbol = "none"])
        /\ implicit' = implicit

\* SimpleVectorPlotter.plot_multiline
plot_multiline(lns, symbol, name, kwargs) ==
    LET has_symbol == Truthy(symbol, kwargs)
        ps == IF symbol = "" THEN _line_symbol(Session)
              ELSE [st |-> Session, symbol |-> symbol]
    IN  /\ Room(Len(lns), name)
        /\ Commit(_set_graphics(_plot_multiline(ps.st, lns, ps.symbol, kwargs), name, has_symbol),
                  PlotRec("plot_multiline", name, Truthy(symbol, kwargs), has_symbol))
        /\ implicit' = implicit

\* SimpleVectorPlotter.plot_multipolygon: one fill colour for all polygons
plot_multipolygon(k, color, name, kwargs) ==
    LET has_symbol == Truthy(color, kwargs)
        has_fc == "facecolor" \in DOMAIN kwargs \/ "fc" \in DOMAIN kwargs
        drawn == ~has_fc /\ color = ""
        s1 == IF drawn THEN _next_color_new(Session) ELSE Session
        kw == IF has_fc THEN kwargs
              ELSE WithFc(kwargs, IF color # "" THEN color ELSE ColorAt(s1))
        s2 == _plot_multipolygon(s1, k, kw)
    IN  /\ Room(k, name)
        /\ Commit(_set_graphics(s2, name, has_symbol),
                  PlotRec("plot_multipolygon", name, Truthy(color, kwargs), has_symbol))
        /\ implicit' = IF drawn THEN Append(implicit, s2.out) ELSE implicit

\* SimpleVectorPlotter.plot_point
plot_point(symbol, name, kwargs) ==
    LET has_symbol == Truthy(symbol, kwargs)
        ps == IF symbol = "" THEN _point_symbol(Session)
              ELSE [st |-> Session, symbol |-> symbol]
    IN  /\ Room(1, name)
        /\ Commit(_set_graphics(_plot_point(ps.st, ps.symbol, kwargs), name, has_symbol),
                  PlotRec("plot_point", name, Truthy(symbol, kwargs), has_symbol))
        /\ implicit' = implicit

\* SimpleVectorPlotter.plot_line: the symbol goes to plt.plot as given
plot_line(n, symbol, name, kwargs) ==
    LET has_symbol == Truthy(symbol, kwargs)
    IN  /\ Room(1, name)
        /\ Commit(_set_graphics(_plot_line(Session, n, symbol, kwargs), name, has_symbol),
                  PlotRec("plot_line", name, Truthy(symbol, kwargs), has_symbol))
        /\ implicit' = implicit

\* SimpleVectorPlotter.plot_polygon
plot_polygon(color, name, kwargs) ==
    LET has_symbol == Truthy(color, kwargs)
        has_fc == "facecolor" \in DOMAIN kwargs \/ "fc" \in DOMAIN kwargs
        drawn == ~has_fc /\ color = ""
        s1 == IF drawn THEN _next_color_new(Session) ELSE Session
        kw == IF has_fc THEN kwargs
              ELSE WithFc(kwargs, IF color # "" THEN color ELSE ColorAt(s1))
        s2 == _plot_polygon(s1, kw)
    IN  /\ Room(1, name)
        /\ Commit(_set_graphics(s2, name, has_symbol),
                  PlotRec("plot_polygon", name, Truthy(color, kwargs), has_symbol))
        /\ implicit' = IF drawn THEN Append(implicit, s2.out) ELSE implicit

\* add_line / add_patch append whatever they are given: a show of a layer still
\* on the canvas attaches its artists once more, without end. The sessions
\* explored keep at most MaxRepeats repeated entries on the canvas lists.
Repeats(s) == Len(s) - Cardinality(Range(s))
WithinRepeats(st) == Repeats(st.lines) + Repeats(st.patches) <= MaxRepeats

\* SimpleVectorPlotter.hide
hide(name) ==
    /\ Commit(HideStep(Session, name),
              [LayerRec("hide", name) EXCEPT !.pre = [lines |-> lines, patches |-> patches]])
    /\ implicit' = implicit

\* SimpleVectorPlotter.show
show(name) ==
    /\ \E lenient \in BOOLEAN :
           /\ WithinRepeats(ShowStep(Session, name, lenient))
           /\ Commit(ShowStep(Session, name, lenient), LayerRec("show", name))
    /\ implicit' = implicit

\* SimpleVectorPlotter.remove
remove(name) ==
    /\ Commit(RemoveStep(Session, name), LayerRec("remove", name))
    /\ implicit' = implicit

\* SimpleVectorPlotter.clear: plt.cla() empties the axes, the registry is reset
clear ==
    /\ Commit([Session EXCEPT !.graphics = EmptyRegistry, !.lines = <<>>, !.patches = <<>>],
              [NoCall EXCEPT !.op = "clear"])
    /\ implicit' = implicit

(* ---------------------------------------------------------------------- *)
(* VectorPlotter: OGR geometries and layers                                *)
(* ---------------------------------------------------------------------- *)
Geom(name, n, parts) == [name |-> name, n |-> n, parts |-> parts]
Point == Geom("POINT", 1, <<>>)
LineString == Geom("LINESTRING", 2, <<>>)
Polygon == Geom("POLYGON", 0, <<>>)
CircularString == Geom("CIRCULARSTRING", 2, <<>>)
MultiLineString(parts) == Geom("MULTILINESTRING", 0, parts)
MultiPolygon(parts) == Geom("MULTIPOLYGON", 0, parts)
Collection(parts) == Geom("GEOMETRYCOLLECTION", 0, parts)
SimpleGeoms == {Point, LineString, Polygon}
Geoms == SimpleGeoms \cup {CircularString, Collection(<<>>),
                           MultiLineString(<<LineString, LineString>>),
                           MultiPolygon(<<Polygon, Polygon>>),
                           Collection(<<Point, Polygon>>), Collection(<<Polygon, Point>>),
                           Collection(<<Point, CircularString>>)}

\* leaves of a geometry: the primitives it creates when every part is
\* supported
RECURSIVE Leaves(_)
RECURSIVE LeavesOfAll(_)
LeavesOfAll(gs) == IF gs = <<>> THEN 0 ELSE Leaves(Head(gs)) + LeavesOfAll(Tail(gs))
Leaves(geom) ==
    IF geom.name \in {"GEOMETRYCOLLECTION", "MULTIPOINT", "MULTILINESTRING", "MULTIPOLYGON"}
    THEN LeavesOfAll(geom.parts) ELSE 1

\* point_types, line_types, polygon_types (by geometry name)
point_types == {"POINT", "MULTIPOINT"}
line_types == {"LINESTRING", "MULTILINESTRING"}
polygon_types == {"POLYGON", "MULTIPOLYGON"}

_kwargs_has_color(kwargs) == "fc" \in DOMAIN kwargs \/ "facecolor" \in DOMAIN kwargs

RECURSIVE _plot_geom(_, _, _, _)
RECURSIVE PlotEach(_, _, _, _)

\* graphics += self._plot_geom(g, symbol, **kwargs) for each g; an exception
\* ends the loop
PlotEach(st, gs, symbol, kwargs) ==
    IF gs = <<>> \/ st.err # "" THEN st
    ELSE PlotEach(_plot_geom(st, Head(gs), symbol, kwargs), Tail(gs), symbol, kwargs)

\* _plot_multipoint: every point with the one symbol
RECURSIVE _plot_multipoint(_, _, _, _)
_plot_multipoint(st, pts, symbol, kwargs) ==
    IF pts = <<>> THEN st
    ELSE _plot_multipoint(_plot_point(st, symbol, kwargs), Tail(pts), symbol, kwargs)

\* VectorPlotter._plot_geom
_plot_geom(st, geom, symbol, kwargs) ==
    CASE geom.name = "POINT" ->
            LET ps == IF symbol = "" THEN _point_symbol(st) ELSE [st |-> st, symbol |-> symbol]
            IN  _plot_point(ps.st, ps.symbol, kwargs)
      [] geom.name = "MULTIPOINT" ->
            LET ps == IF symbol = "" THEN _point_symbol(st) ELSE [st |-> st, symbol |-> symbol]
            IN  _plot_multipoint(ps.st, geom.parts, ps.symbol, kwargs)
      [] geom.name = "LINESTRING" -> _plot_line(st, geom.n, symbol, kwargs)
      [] geom.name = "MULTILINESTRING" ->
            _plot_multiline(st, [k \in 1..Len(geom.parts) |-> geom.parts[k].n], symbol, kwargs)
      [] geom.name = "POLYGON" -> _plot_polygon(st, kwargs)
      [] geom.name = "MULTIPOLYGON" -> _plot_multipolygon(st, Len(geom.parts), kwargs)
      [] geom.name = "GEOMETRYCOLLECTION" -> PlotEach(st, geom.parts, symbol, kwargs)
      [] OTHER -> [st EXCEPT !.err = "RuntimeError"]

\* the head of plot_geom and plot_layer: the default symbol and fill colour
\* are chosen before has_symbol (symbol or kwargs) is computed
Defaults(st, geom_type, symbol, kwargs) ==
    LET ps == IF symbol # "" THEN [st |-> st, symbol |-> symbol]
              ELSE IF geom_type \in point_types THEN _point_symbol(st)
              ELSE IF geom_type \in line_types THEN _line_symbol(st)
              ELSE [st |-> st, symbol |-> symbol]
        drawn == geom_type \in polygon_types /\ ~_kwargs_has_color(kwargs) /\ ps.symbol = ""
        s1 == IF drawn THEN _next_color_new(ps.st) ELSE ps.st
        kw == IF geom_type \in polygon_types /\ ~_kwargs_has_color(kwargs)
              THEN WithFc(kwargs, IF ps.symbol # "" THEN ps.symbol ELSE ColorAt(s1))
              ELSE kwargs
    IN  [st |-> s1, symbol |-> ps.symbol, kwargs |-> kw, drawn |-> drawn]

\* the tail of plot_geom and plot_layer: _set_graphics, unless plotting raised
SetUnlessRaised(st, name, has_symbol) ==
    IF st.err # "" THEN st ELSE _set_graphics(st, name, has_symbol)

GeomStyleArgs(geom_type) ==
    IF geom_type \in polygon_types THEN PolygonStyleArgs ELSE StyleArgs

\* VectorPlotter.plot_geom
plot_geom(geom, symbol, name, kwargs) ==
    LET d == Defaults(Session, geom.name, symbol, kwargs)
        has_symbol == Truthy(d.symbol, d.kwargs)
        s2 == _plot_geom(d.st, geom, d.symbol, d.kwargs)
    IN  /\ Room(Leaves(geom), name)
        /\ Commit(SetUnlessRaised(s2, name, has_symbol),
                  [PlotRec("plot_geom", name, Truthy(symbol, kwargs), has_symbol)
                      EXCEPT !.has_symbol = IF s2.err # "" THEN "none" ELSE @])
        /\ implicit' = IF d.drawn THEN Append(implicit, s2.out) ELSE implicit

\* OGR layers: a declared geometry type (or wkbUnknown) and its features
Layer(type, feats) == [type |-> type, feats |-> feats]
OgrLayers == {Layer("POINT", <<>>), Layer("POLYGON", <<Polygon>>),
              Layer("LINESTRING", <<LineString, LineString>>),
              Layer("UNKNOWN", <<Point, Polygon>>)}

\* VectorPlotter.plot_layer
plot_layer(lyr, symbol, name, kwargs) ==
    LET geom_type == IF lyr.type = "UNKNOWN" THEN lyr.feats[1].name ELSE lyr.type
        d == Defaults(Session, geom_type, symbol, kwargs)
        has_symbol == Truthy(d.symbol, d.kwargs)
        s2 == PlotEach(d.st, lyr.feats, d.symbol, d.kwargs)
    IN  /\ Room(Len(lyr.feats), name)
        /\ Commit(SetUnlessRaised(s2, name, has_symbol),
                  [PlotRec("plot_layer", name, Truthy(symbol, kwargs), has_symbol)
                      EXCEPT !.has_symbol = IF s2.err # "" THEN "none" ELSE @])
        /\ implicit' = IF d.drawn THEN Append(implicit, s2.out) ELSE implicit

(* ---------------------------------------------------------------------- *)
(* Specification of the session                                            *)
(* ---------------------------------------------------------------------- *)
\* names a caller may pass to hide, show and remove
LayerNames == {StrName(s) : s \in ExplicitNames} \cup {OrdName(k) : k \in 0..(MaxLayers - 1)}

RingIdle == ring = <<>> /\ want = FALSE /\ returned = <<>>
PolyIdle == poly = <<>> /\ path = <<>>

\* SimpleVectorPlotter.__init__
NewPlotter ==
    /\ graphics = EmptyRegistry
    /\ prims = <<>>
    /\ lines = <<>>
    /\ patches = <<>>
    /\ current_color = -1
    /\ call = NoCall
    /\ implicit = <<>>

Init == NewPlotter /\ budget = MaxPrims /\ RingIdle /\ PolyIdle /\ given = <<>>

PlotPoint == \E sk \in StyleArgs, name \in NameArgs :
    plot_point(sk[1], name, sk[2])
PlotLine == \E n \in LinePts, sk \in StyleArgs, name \in NameArgs :
    plot_line(n, sk[1], name, sk[2])
PlotPolygon == \E sk \in PolygonStyleArgs, name \in NameArgs :
    plot_polygon(sk[1], name, sk[2])
PlotMultiPoint == \E sk \in StyleArgs, name \in NameArgs :
    plot_multipoint(sk[1], name, sk[2])
PlotMultiLine == \E lns \in MultiLines, sk \in StyleArgs, name \in NameArgs :
    plot_multiline(lns, sk[1], name, sk[2])
PlotMultiPolygon == \E k \in MultiPolygonSizes, sk \in PolygonStyleArgs, name \in NameArgs :
    plot_multipolygon(k, sk[1], name, sk[2])
PlotGeom == \E geom \in Geoms, name \in NameArgs :
    \E sk \in GeomStyleArgs(geom.name) : plot_geom(geom, sk[1], name, sk[2])
PlotLayer == \E lyr \in OgrLayers, name \in NameArgs :
    \E sk \in GeomStyleArgs(lyr.type) : plot_layer(lyr, sk[1], name, sk[2])
Hide == \E name \in LayerNames : hide(name)
Show == \E name \in LayerNames : show(name)
Remove == \E name \in LayerNames : remove(name)
Clear == clear

\* every public plot call with hide, show, remove and clear; the sessions are
\* explored by class (SimpleSpec, DispatchSpec) and, for the calls that
\* return, as a whole (ReturnedSpec)
Next ==
    \/ PlotPoint
    \/ PlotLine
    \/ PlotPolygon
    \/ PlotMultiPoint
    \/ PlotMultiLine
    \/ PlotMultiPolygon
    \/ PlotGeom
    \/ PlotLayer
    \/ Hide
    \/ Show
    \/ Remove
    \/ Clear

Spec == Init /\ [][Next]_vars

\* a session of VectorPlotter's own plot calls: every geometry goes through
\* plot_geom or plot_layer
DispatchNext ==
    \/ PlotGeom
    \/ PlotLayer
    \/ Hide
    \/ Show
    \/ Remove
    \/ Clear
DispatchSpec == Init /\ [][DispatchNext]_vars

\* a session of SimpleVectorPlotter's own plot calls
SimpleNext ==
    \/ PlotPoint
    \/ PlotLine
    \/ PlotPolygon
    \/ PlotMultiPoint
    \/ PlotMultiLine
    \/ PlotMultiPolygon
    \/ Hide
    \/ Show
    \/ Remove
    \/ Clear
SimpleSpec == Init /\ [][SimpleNext]_vars

\* a session that plots polygons only
PolygonInit == NewPlotter /\ budget = MaxPolygons /\ RingIdle /\ PolyIdle /\ given = <<>>
PolygonNext ==
    \/ PlotPolygon
    \/ PlotMultiPolygon
    \/ Hide
    \/ Show
    \/ Remove
    \/ Clear
PolygonSpec == PolygonInit /\ [][PolygonNext]_vars

(* ---------------------------------------------------------------------- *)
(* _order_vertices on every ring of the grid, called again and again on    *)
(* the one list: it works in place and returns the list it was given       *)
(* ---------------------------------------------------------------------- *)
Idle == NewPlotter /\ budget = 0

GridPoints == (0..MaxCoord) \X (0..MaxCoord)
Rings == UNION {[1..m -> GridPoints] : m \in 1..MaxRingLen}

RingInit ==
    /\ Idle /\ PolyIdle
    /\ ring \in Rings
    /\ want \in BOOLEAN
    /\ given = ring
    /\ returned = <<>>

\* data = self._order_vertices(data, want): the list is reversed and closed in
\* place, and the value returned is the list itself
OrderVertices ==
    /\ Len(returned) < MaxCalls
    /\ ring' = _order_vertices(ring, want)
    /\ returned' = Append(returned, ring')
    /\ UNCHANGED <<want, given, sessionVars, polyVars>>

RingNext == OrderVertices
RingSpec == RingInit /\ [][RingNext]_vars

(* ---------------------------------------------------------------------- *)
(* _plot_polygon's path on polygons of triangles of the unit square        *)
(* ---------------------------------------------------------------------- *)
UnitSquare == {0, 1} \X {0, 1}
Triangles == [1..3 -> UnitSquare]
\* the ways rings share list objects: data over n objects, each object used,
\* numbered in the order of first use
Sharings(len, n) ==
    {d \in [1..len -> 1..n] :
        /\ \A o \in 1..n : \E k \in 1..len : d[k] = o
        /\ \A k \in 1..len : \A o \in 1..(d[k] - 1) : \E j \in 1..(k - 1) : d[j] = o}
Polygons ==
    UNION {UNION {[objs : [1..n -> Triangles], data : Sharings(1 + h, n)] : n \in 1..(1 + h)}
           : h \in 0..MaxHoles}
\* the k-th ring of a polygon argument whose list objects are objs
RingAt(objs, p, k) == objs[p.data[k]]

PathInit ==
    /\ Idle /\ RingIdle
    /\ poly \in Polygons
    /\ given = poly.objs
    /\ path = <<>>

\* self._plot_polygon(data, **kwargs): the rings of data are ordered and closed
\* in place, the path is built from them, and one PathPatch goes on the canvas
BuildPath == \E kwargs \in {NoKwargs, [fc |-> "k"]} :
    LET st == _plot_polygon(Session, kwargs)
    IN  /\ path = <<>>
        /\ path' = PolygonPath(poly)
        /\ poly' = [poly EXCEPT !.objs = OrderedInPlace(poly.objs, poly.data, Len(poly.data))]
        /\ prims' = st.prims
        /\ patches' = st.patches
        /\ UNCHANGED <<graphics, lines, current_color, call, implicit, budget, ringVars, given>>

PathNext == BuildPath
PathSpec == PathInit /\ [][PathNext]_vars

(* ---------------------------------------------------------------------- *)
(* Properties of the ring functions                                        *)
(* ---------------------------------------------------------------------- *)
\* twice the signed area of the triangle a, b, c
Cross(a, b, c) == (b[1] - a[1]) * (c[2] - a[2]) - (b[2] - a[2]) * (c[1] - a[1])
NonCollinear(r) ==
    \E i, j, k \in 1..Len(r) : Cross(r[i], r[j], r[k]) # 0
Sign(n) == IF n > 0 THEN 1 ELSE IF n < 0 THEN -1 ELSE 0

\* C5: for every ring of at least 3 non-collinear points, _order_vertices
\* with clockwise=True returns a ring of non-negative shoelace sum and with
\* clockwise=False one of non-positive sum: the returned points are the
\* input's reversed exactly when the input's orientation differs from the
\* requested one, and the input's own otherwise.
C5_OrderedAsRequested ==
    (returned # <<>> /\ Len(given) >= 3 /\ NonCollinear(given)) =>
        /\ want => ShoelaceTotal(returned[1]) >= 0
        /\ ~want => ShoelaceTotal(returned[1]) <= 0
        /\ SubSeq(returned[1], 1, Len(given)) =
               IF _clockwise(given) # want THEN Reverse(given) ELSE given

\* C6: _order_vertices applied to its own result with the same flag returns
\* the same point sequence, for every non-empty ring, zero-sum and closed
\* rings included: the points the second call returns are the points the
\* first call returned.
C6_OrderIdempotent ==
    Len(returned) >= 2 => returned[2] = returned[1]

(* ---------------------------------------------------------------------- *)
(* Properties of the polygon path                                          *)
(* ---------------------------------------------------------------------- *)
\* the sub-paths of a path: each starts at a MOVETO code and runs to the next
Starts(p) == {i \in 1..Len(p.codes) : p.codes[i] = "MOVETO"}
SubPath(p, i) ==
    LET later == {j \in Starts(p) : j > i}
        last  == IF later = {} THEN Len(p.codes)
                 ELSE (CHOOSE j \in later : \A l \in later : j <= l) - 1
    IN  SubSeq(p.vertices, i, last)
\* the k-th sub-path, in buffer order
KthStart(p, k) == CHOOSE i \in Starts(p) : Cardinality({j \in Starts(p) : j < i}) = k - 1
\* ring r as the path holds it: its points in either direction, closed
Closed(r) == IF r[1] # r[Len(r)] THEN Append(r, r[1]) ELSE r
HoldsRing(sub, r) == sub = Closed(r) \/ sub = Closed(Reverse(r))

\* C7: for every polygon whose rings all have non-zero shoelace sum, the path
\* holds one sub-path per ring, the outer ring first and then the holes in
\* input order, and every hole's winding sign is the opposite of the outer
\* ring's.
C7_OuterThenOppositeHoles ==
    (path # <<>> /\ \A k \in 1..Len(poly.data) : ShoelaceTotal(RingAt(given, poly, k)) # 0) =>
        /\ Len(path.vertices) = Len(path.codes)
        /\ Cardinality(Starts(path)) = Len(poly.data)
        /\ \A k \in 1..Len(poly.data) :
               HoldsRing(SubPath(path, KthStart(path, k)), RingAt(given, poly, k))
        /\ \A k \in 2..Len(poly.data) :
               Sign(ShoelaceTotal(SubPath(path, KthStart(path, k))))
                   = -Sign(ShoelaceTotal(SubPath(path, KthStart(path, 1))))

(* ---------------------------------------------------------------------- *)
(* Properties of the session                                               *)
(* ---------------------------------------------------------------------- *)
\* the primitives a step creates
NewPrims == {g \in 1..Len(prims') : g > Len(prims)}
\* two primitives of the same kind: markers, stroked lines of equal point
\* count or both of more than one point, filled paths
SameKind(g1, g2) ==
    /\ g1.cls = g2.cls
    /\ g1.cls = "Line2D" => (g1.n = g2.n \/ (g1.n > 1 /\ g2.n > 1))
\* the layers of the registry and their places on the canvas are as before
LayerUntouched(nm) ==
    /\ nm \in DOMAIN graphics'
    /\ graphics'[nm] = graphics[nm]
    /\ \A g \in Range(graphics[nm]) :
           /\ Count(lines', g) = Count(lines, g)
           /\ Count(patches', g) = Count(patches, g)

\* C1: when a plot call that set layer `name` with has_symbol truthy is
\* followed by a plot call that sets the same name with has_symbol falsy and
\* primitives of the same kind, the second call raises nothing, the layer
\* holds the new primitives, and each of them carries the style of the first
\* primitive of the layer it replaces.
C1_StyleContinuity ==
    [][(/\ call.op \in PlotOps /\ call.err = "" /\ call.has_symbol = "truthy"
        /\ call.name \in DOMAIN graphics /\ graphics[call.name] # <<>>
        /\ call'.op \in PlotOps /\ call'.has_symbol = "falsy"
        /\ call'.name = call.name
        /\ NewPrims # {}
        /\ \A g \in NewPrims :
               SameKind(prims'[g], prims[graphics[call.name][1]]))
       => (/\ call'.err = ""
           /\ call.name \in DOMAIN graphics'
           /\ Range(graphics'[call.name]) = NewPrims
           /\ \A g \in NewPrims :
                  prims'[g].style = prims[graphics[call.name][1]].style)]_vars

\* C2: plot_geom and plot_layer hand _set_graphics a truthy has_symbol only
\* when the caller supplied a symbol or a style keyword; a call on an existing
\* name that supplies neither hands it a falsy one, and a same-kind redraw
\* then carries the style of the layer it replaces.
C2_DispatcherKeepsStyle ==
    [][(call'.op \in {"plot_geom", "plot_layer"} /\ call'.has_symbol # "none")
       => (/\ (call'.has_symbol = "truthy") <=> call'.supplied
           /\ (/\ ~call'.supplied /\ call'.err = ""
               /\ call'.name \in DOMAIN graphics /\ graphics[call'.name] # <<>>
               /\ NewPrims # {}
               /\ \A g \in NewPrims :
                      SameKind(prims'[g], prims[graphics[call'.name][1]]))
              => \A g \in NewPrims :
                     prims'[g].style = prims[graphics[call'.name][1]].style)]_vars

\* a layer's primitives as the canvas cv holds them: each once on the list of
\* its class and not on the other list
Visible(cv, gs) ==
    \A g \in Range(gs) :
        /\ Count(cv.lines, g) = (IF prims[g].cls = "Line2D" THEN 1 ELSE 0)
        /\ Count(cv.patches, g) = (IF prims[g].cls = "PathPatch" THEN 1 ELSE 0)

\* C3: show(name) right after hide(name) of a visible layer, single-class or
\* mixed, leaves every primitive of the layer on the canvas as it was before
\* the hide: once on the list of its class, on no other list.
C3_HideShowRestores ==
    [][(/\ call.op = "hide" /\ call'.op = "show" /\ call'.name = call.name
        /\ call.name \in DOMAIN graphics
        /\ Visible(call.pre, graphics[call.name]))
       => Visible([lines |-> lines', patches |-> patches'], graphics[call.name])]_vars

\* C4: hide, show and remove of a name that is not in the registry raise
\* nothing and leave the registry, the canvas and the palette cursor as they
\* were.
C4_AbsentNameNoOp ==
    [][(call'.op \in {"hide", "show", "remove"} /\ call'.name \notin DOMAIN graphics)
       => (/\ call'.err = ""
           /\ graphics' = graphics
           /\ lines' = lines
           /\ patches' = patches
           /\ current_color' = current_color)]_vars

\* C4 witness: a show of an absent name has returned in a session that holds
\* a layer, an attached primitive and an advanced palette cursor
C4_Witness ==
    /\ call.op = "show" /\ call.err = ""
    /\ call.name \notin DOMAIN graphics
    /\ DOMAIN graphics # {}
    /\ lines # <<>>
    /\ current_color >= 0

\* C8: the primitives of the i-th polygon plot without a fill colour
\* (counting from 0) are filled with palette entry i mod N, whatever hide,
\* show, remove, clear and coloured plots come in between.
C8_PaletteRotation ==
    \A i \in 1..Len(implicit) :
        \A g \in Range(implicit[i]) :
            prims[g].style.kw.fc = colors[((i - 1) % Len(colors)) + 1]

\* C8 witness: more colourless polygon plots than the palette has entries,
\* the one after the wrap filled with the first entry again, after a clear
C8_Witness ==
    /\ Len(implicit) = Len(colors) + 1
    /\ \A g \in Range(implicit[Len(colors) + 1]) : prims[g].style.kw.fc = colors[1]
    /\ call.op = "clear"

\* C9: a plot call that raises leaves every layer of the registry in the
\* registry with the same primitives, attached to the canvas as before the
\* call, the layer of the call's own name included.
C9_FailedCallTouchesNothing ==
    [][(call'.op \in PlotOps /\ call'.err # "")
       => \A nm \in DOMAIN graphics : LayerUntouched(nm)]_vars

\* C10: a plot call without a name stores its layer under a name that is not
\* in the registry yet, and every layer of the registry stays as it was.
C10_UnnamedPlotIsNew ==
    [][(call'.op \in PlotOps /\ call'.name.s = "" /\ NewPrims # {})
       => (/\ call'.name \notin DOMAIN graphics
           /\ \A nm \in DOMAIN graphics : LayerUntouched(nm))]_vars

(* ---------------------------------------------------------------------- *)
(* Sessions in which every call returns                                    *)
(* ---------------------------------------------------------------------- *)
\* the call of the step raised nothing
Returned == call'.err = ""

ReturnedNext ==
    \/ PlotPoint /\ Returned
    \/ PlotLine /\ Returned
    \/ PlotPolygon /\ Returned
    \/ PlotMultiLine /\ Returned
    \/ PlotMultiPolygon /\ Returned
    \/ PlotGeom /\ Returned
    \/ PlotLayer /\ Returned
    \/ Hide /\ Returned
    \/ Show /\ Returned
    \/ Remove /\ Returned
    \/ Clear /\ Returned
ReturnedSpec == Init /\ [][ReturnedNext]_vars

\* a primitive held by some layer of the registry
Registered(g) == \E nm \in DOMAIN graphics : g \in Range(graphics[nm])

\* C11: after any sequence of plot, hide, show, remove and clear calls that
\* all returned, every primitive attached to the canvas (on axes.lines or
\* axes.patches) belongs to a layer stored in the registry: nothing of a
\* replaced or removed layer stays attached, mixed or hidden layers included.
C11_NoOrphans ==
    \A g \in Range(lines) \cup Range(patches) : Registered(g)

====
